---- MODULE Spec2Model ----
(***************************************************************************)
(* fast-jss-manager-angular, src/manage-jss.ts: the JSSManager mixin       *)
(* returned by manageJss(styles)(BaseComponent).                           *)
(*                                                                         *)
(* The module models                                                       *)
(*   - the static caches of every JSSManager class (styleMap,              *)
(*     componentMap, separatedStyles), one set per wrapper class;          *)
(*   - the per-instance fields (state, config, instanceId, className);     *)
(*   - the four lifecycle hooks and the two event listeners;               *)
(*   - separateStyles and getClassNames as operators over rule trees and   *)
(*     class maps;                                                         *)
(*   - the collaborators the file imports (the jss engine, the shared      *)
(*     SheetsManager, the two tree extractors) by their documented         *)
(*     interface.                                                          *)
(***************************************************************************)
EXTENDS Integers, Sequences, FiniteSets, TLC

(***************************************************************************)
(* Bounds                                                                  *)
(***************************************************************************)
\* nesting depth of the rule trees separateStyles is applied to
MaxDepth == 2
\* getConfig events handled after ngOnInit, over all instances
MaxDeliveries == 2

(***************************************************************************)
(* JavaScript values                                                       *)
(***************************************************************************)
Undefined == [tag |-> "undefined"]
Null == [tag |-> "null"]
\* {} : the object with no own keys
EmptyObject == << >>

\* Boolean(x) for the values the file applies it to (objects, null, undefined)
Boolean(x) == x # Undefined /\ x # Null


(***************************************************************************)
(* Rule trees (ICSSRules): rule name -> literal | resolver | nested tree   *)
(***************************************************************************)
Keys == {"a", "b"}
Literals == {"red"}
Resolvers == {"fn"}

Lit(v) == [tag |-> "lit", val |-> v]
Fn(f) == [tag |-> "fn", fn |-> f]
Obj(t) == [tag |-> "obj", kids |-> t]

Leaves == {Lit(v) : v \in Literals} \cup {Fn(f) : f \in Resolvers}

RECURSIVE Trees(_)
Trees(d) ==
    IF d = 0
    THEN {EmptyObject}
    ELSE LET nodes == Leaves \cup {Obj(t) : t \in Trees(d - 1)}
         IN  UNION {[K -> nodes] : K \in SUBSET Keys}

\* jss getDynamicStyles: the resolver-valued rules of a tree, null when none
RECURSIVE getDynamicStyles(_)
getDynamicStyles(styles) ==
    LET keep == {k \in DOMAIN styles :
                    \/ styles[k].tag = "fn"
                    \/ /\ styles[k].tag = "obj"
                       /\ getDynamicStyles(styles[k].kids) # Null}
    IN  IF keep = {}
        THEN Null
        ELSE [k \in keep |->
                IF styles[k].tag = "fn"
                THEN styles[k]
                ELSE Obj(getDynamicStyles(styles[k].kids))]

\* ./utilities/get-static-styles: the literal-valued rules, null when none
RECURSIVE getStaticStyles(_)
getStaticStyles(styles) ==
    LET keep == {k \in DOMAIN styles :
                    \/ styles[k].tag = "lit"
                    \/ /\ styles[k].tag = "obj"
                       /\ getStaticStyles(styles[k].kids) # Null}
    IN  IF keep = {}
        THEN Null
        ELSE [k \in keep |->
                IF styles[k].tag = "lit"
                THEN styles[k]
                ELSE Obj(getStaticStyles(styles[k].kids))]

\* ./utilities/object isEmptyObject
isEmptyObject(o) == DOMAIN o = {}

(***************************************************************************)
(* The jss engine: a registry of stylesheets; a handle is an index into it *)
(***************************************************************************)
\* the generated class name of rule k in sheet number n
ClassName(k, n) == (k \o "-") \o ToString(n)

\* jss.createStyleSheet(styles, options)
createStyleSheet(shs, rules, link) ==
    LET n == Len(shs) + 1
    IN  [ret |-> n,
         sheets |-> Append(shs, [rules |-> rules,
                                 classes |-> [k \in DOMAIN rules |-> ClassName(k, n)],
                                 link |-> link,
                                 attached |-> FALSE,
                                 registered |-> TRUE,
                                 data |-> "undefined",
                                 log |-> << >>])]

(***************************************************************************)
(* JSSManager.separateStyles                                               *)
(***************************************************************************)
\* line 260: the dynamic side is kept
KeepDynamicAlways(dynamicStyles) == TRUE
KeepDynamic(dynamicStyles) ==
    Boolean(dynamicStyles) /\ ~isEmptyObject(dynamicStyles)

\* line 264: the static side is kept
KeepStatic(staticStyles) ==
    Boolean(staticStyles) /\ ~isEmptyObject(staticStyles)

\* line 257 with the two extractors exchanged
StaticSideSwapped(componentStyles) == getDynamicStyles(componentStyles)
StaticSide(componentStyles) == getStaticStyles(componentStyles)

separateStyles(shs, componentStyles) ==
    LET dynamicStyles == getDynamicStyles(componentStyles)
        staticStyles == StaticSide(componentStyles)
        s0 == EmptyObject
        s1 == IF KeepDynamic(dynamicStyles)
              THEN s0 @@ ("dynamicStyles" :> dynamicStyles)
              ELSE s0
        made == createStyleSheet(shs, staticStyles, FALSE)
    IN  IF KeepStatic(staticStyles)
        THEN [ret |-> s1 @@ ("staticStyles" :> staticStyles)
                         @@ ("staticStyleSheet" :> made.ret),
              sheets |-> made.sheets]
        ELSE [ret |-> s1, sheets |-> shs]

(***************************************************************************)
(* JSSManager.getClassNames                                                *)
(***************************************************************************)
hasStaticStyleSheet(st) == "staticStyleSheet" \in DOMAIN st
hasDynamicStyleSheet(st) == "dynamicStyleSheet" \in DOMAIN st

\* lines 285-287 with the two class names in the other order
MergeClassDynamicFirst(staticClass, dynamicClass) ==
    (dynamicClass \o " ") \o staticClass
MergeClass(staticClass, dynamicClass) ==
    (staticClass \o " ") \o dynamicClass

\* line 279: Object.assign({}, classes) leaves the sheet's own map as it was
StaticClassesAfterMergeAliased(own, merged) == merged
StaticClassesAfterMerge(own, merged) == own

\* st is this.state, shs the engine's sheets; the result carries the sheets
\* as the call leaves them
getClassNames(st, shs) ==
    LET base == IF hasStaticStyleSheet(st)
                THEN shs[st.staticStyleSheet].classes
                ELSE EmptyObject
        dyn == IF hasDynamicStyleSheet(st)
               THEN shs[st.dynamicStyleSheet].classes
               ELSE EmptyObject
        classNames == [k \in DOMAIN base \cup DOMAIN dyn |->
                        IF k \in DOMAIN dyn
                        THEN IF k \in DOMAIN base
                             THEN MergeClass(base[k], dyn[k])
                             ELSE dyn[k]
                        ELSE base[k]]
    IN  [ret |-> classNames,
         sheets |-> IF hasStaticStyleSheet(st)
                    THEN [shs EXCEPT ![st.staticStyleSheet].classes =
                                StaticClassesAfterMerge(base, classNames)]
                    ELSE shs]

(***************************************************************************)
(* The wrapper classes, the style sets and the instances                   *)
(***************************************************************************)
\* every call manageJss(styles)(BaseComponent) declares one JSSManager class
Classes == {"A", "B", "C"}
StyleRefs == {"s1", "s2"}
\* the styles argument of the call that made the class
StylesOf == [k \in Classes |-> IF k = "C" THEN "s2" ELSE "s1"]
Instances == {"i1", "i2"}

\* style sets: the rule tree and its keys in declaration order
StyleBoth ==
    [rules |-> ("a" :> Obj(("a" :> Lit("red")) @@ ("b" :> Fn("fn"))))
               @@ ("b" :> Obj("a" :> Fn("fn"))),
     keys |-> <<"a", "b">>]
StyleStatic ==
    [rules |-> ("b" :> Obj("a" :> Lit("red"))), keys |-> <<"b">>]
StyleDynamic ==
    [rules |-> ("a" :> Obj("b" :> Fn("fn"))), keys |-> <<"a">>]
StyleNone == [rules |-> EmptyObject, keys |-> << >>]
StyleSets == {StyleBoth, StyleStatic, StyleDynamic, StyleNone}

\* configuration objects; "undefined" is the unset field, "{}" the empty object
Configs == {"{}", "red"}

Hooks == {"ngOnInit", "ngAfterContentInit", "ngAfterViewInit", "ngOnDestroy"}

VARIABLES
    classOf,          \* the class each instance was constructed from
    styleDef,         \* the content of each style-set object (s1 and s2 are
                      \* two objects with deeply equal content)
    styleMap,         \* JSSManager.styleMap of each class: style ref -> id, 0 unset
    componentMap,     \* JSSManager.componentMap of each class at key Component
    separatedStyles,  \* JSSManager.separatedStyles of each class: key -> object
    separated,        \* the ISeparatedStylesheet objects made by separateStyles
    uuids,            \* number of identifiers uuid() has returned
    sheets,           \* the jss engine's stylesheets
    manager,          \* the shared SheetsManager: added sheet -> reference count
    state,            \* this.state
    config,           \* this.config
    instanceId,       \* this.instanceId
    className,        \* this.className
    listening,        \* the getConfig and update listeners are installed
    hookLog,          \* the hooks invoked on the instance, in order
    faults,           \* the hooks that threw
    deliveries,       \* getConfig events handled after ngOnInit
    calls,            \* manage / unmanage calls made by the instance
    obtained,         \* the separated object ngAfterContentInit looked up
    requests,         \* getConfig events the instance dispatched
    refreshes,        \* update events the instance's listener handled
    superCalls,       \* the hooks forwarded to the wrapped component, in order
    pTree, pSep,      \* separateStyles applied to a rule tree
    gState, gSheets, gOut   \* getClassNames applied to a pair of class maps

vars == <<classOf, styleDef, styleMap, componentMap, separatedStyles, separated,
          uuids, sheets, manager, state, config, instanceId, className,
          listening, hookLog, faults, deliveries, calls, obtained,
          requests, refreshes, superCalls,
          pTree, pSep, gState, gSheets, gOut>>

lifeVars == <<classOf, styleDef, styleMap, componentMap, separatedStyles,
              separated, uuids, sheets, manager, state, config, instanceId,
              className, listening, hookLog, faults, deliveries, calls,
              obtained, requests, refreshes, superCalls>>
sepVars == <<pTree, pSep>>
mergeVars == <<gState, gSheets, gOut>>

Range(f) == {f[x] : x \in DOMAIN f}
Invoked(i, h) == h \in Range(hookLog[i])

InitClasses ==
    /\ styleMap = [k \in Classes |-> [s \in StyleRefs |-> 0]]
    /\ componentMap = [k \in Classes |-> 0]
    /\ separatedStyles = [k \in Classes |-> EmptyObject]
    /\ separated = << >>
    /\ uuids = 0
    /\ sheets = << >>
    /\ manager = EmptyObject

InitInstances ==
    /\ state = [i \in Instances |-> Undefined]
    /\ config = [i \in Instances |-> "undefined"]
    /\ instanceId = [i \in Instances |-> <<0, 0>>]
    /\ className = [i \in Instances |-> "undefined"]
    /\ listening = [i \in Instances |-> FALSE]
    /\ hookLog = [i \in Instances |-> << >>]
    /\ faults = [i \in Instances |-> {}]
    /\ deliveries = [i \in Instances |-> 0]
    /\ calls = [i \in Instances |-> [manage |-> 0, unmanage |-> 0]]
    /\ obtained = [i \in Instances |-> 0]
    /\ requests = [i \in Instances |-> 0]
    /\ refreshes = [i \in Instances |-> 0]
    /\ superCalls = [i \in Instances |-> << >>]

IdleSep == pTree = EmptyObject /\ pSep = Undefined
IdleMerge == gState = EmptyObject /\ gSheets = << >> /\ gOut = Undefined

Init ==
    /\ classOf \in {f \in [Instances -> Classes] : f["i1"] = "A"}
    /\ styleDef \in {[s \in StyleRefs |-> d] : d \in StyleSets}
    /\ InitClasses
    /\ InitInstances
    /\ IdleSep
    /\ IdleMerge

(***************************************************************************)
(* Stylesheet operations of the jss engine                                 *)
(***************************************************************************)
Call(op, arg) == [op |-> op, arg |-> arg]

\* sheet.attach()
attach(shs, h) ==
    [shs EXCEPT ![h].attached = TRUE,
                ![h].log = Append(@, Call("attach", "-"))]

\* sheet.detach()
detach(shs, h) ==
    [shs EXCEPT ![h].attached = FALSE,
                ![h].log = Append(@, Call("detach", "-"))]

\* sheet.update(data): the resolver rules are evaluated against data
update(shs, h, data) ==
    [shs EXCEPT ![h].data = data,
                ![h].log = Append(@, Call("update", "-"))]

\* jss.removeStyleSheet(sheet)
removeStyleSheet(shs, h) ==
    [shs EXCEPT ![h].attached = FALSE,
                ![h].registered = FALSE,
                ![h].log = Append(@, Call("remove", "-"))]

(***************************************************************************)
(* The shared SheetsManager (reference counted)                            *)
(***************************************************************************)
\* stylesheetManager.add(key, sheet)
managerAdd(m, h) == IF h \in DOMAIN m THEN m ELSE m @@ (h :> 0)

\* stylesheetManager.manage(key)
managerManage(m, shs, h) ==
    [manager |-> [m EXCEPT ![h] = @ + 1],
     sheets |-> IF m[h] = 0 THEN attach(shs, h) ELSE shs]

\* stylesheetManager.unmanage(key)
managerUnmanage(m, shs, h) ==
    IF h \notin DOMAIN m \/ m[h] = 0
    THEN [manager |-> m, sheets |-> shs]
    ELSE [manager |-> [m EXCEPT ![h] = @ - 1],
          sheets |-> IF m[h] = 1 THEN detach(shs, h) ELSE shs]

(***************************************************************************)
(* Configuration                                                           *)
(***************************************************************************)
\* a getter that ignores this.config
designSystemEmpty(cfg) == "{}"
\* get designSystem
designSystem(cfg) == IF cfg # "undefined" THEN cfg ELSE "{}"

\* a listener that evaluates the dynamic stylesheet twice per event
getConfigListenerTwice(st, shs, c) ==
    [config |-> c,
     sheets |-> IF hasDynamicStyleSheet(st)
                THEN update(update(shs, st.dynamicStyleSheet, designSystem(c)),
                            st.dynamicStyleSheet, designSystem(c))
                ELSE shs]
\* the getConfig listener of ngOnInit, handling an event with detail c
getConfigListener(st, shs, c) ==
    [config |-> c,
     sheets |-> IF hasDynamicStyleSheet(st)
                THEN update(shs, st.dynamicStyleSheet, designSystem(c))
                ELSE shs]

(***************************************************************************)
(* Lifecycle hooks                                                         *)
(***************************************************************************)
\* the hooks the wrapped component defines
BaseHooks == Hooks

\* lines 115-117, 141-143, 195-197: the hook starts by calling the hook of
\* the wrapped component when it is defined; ngOnDestroy (211-223) has no
\* such call
CallsSuper(h) ==
    /\ h \in BaseHooks
    /\ h \in {"ngOnInit", "ngAfterContentInit", "ngAfterViewInit"}

\* the framework invokes a hook at most once, none after ngOnDestroy, and
\* ngOnInit, when it invokes it, before every other hook; the class itself
\* enforces no order
Enter(i, h) ==
    /\ ~Invoked(i, h)
    /\ ~Invoked(i, "ngOnDestroy")
    /\ h = "ngOnInit" => hookLog[i] = << >>
    /\ hookLog' = [hookLog EXCEPT ![i] = Append(@, h)]
    /\ superCalls' = [superCalls EXCEPT ![i] =
                        IF CallsSuper(h) THEN Append(@, h) ELSE @]

\* the hook throws a TypeError reading a property of undefined
Throw(i, h) == faults' = [faults EXCEPT ![i] = @ \cup {h}]

\* a dispatch that precedes the installation of both listeners
InstalledAtDispatchNone == {}
\* the listeners installed on the element when line 133 dispatches the
\* getConfig event: the one of line 121, not yet the one of line 135
InstalledAtDispatch == {"getConfig"}

\* line 119 sets the state, line 121 installs the getConfig listener, and
\* the getConfig event of lines 132-133 (detail {}) is dispatched on the
\* element itself, so the listener handles it before ngOnInit returns
ngOnInit(i) ==
    /\ Enter(i, "ngOnInit")
    /\ LET st == EmptyObject
           handled == IF "getConfig" \in InstalledAtDispatch
                      THEN getConfigListener(st, sheets, "{}")
                      ELSE [config |-> config[i], sheets |-> sheets]
       IN  /\ state' = [state EXCEPT ![i] = st]
           /\ listening' = [listening EXCEPT ![i] = TRUE]
           /\ requests' = [requests EXCEPT ![i] = @ + 1]
           /\ config' = [config EXCEPT ![i] = handled.config]
           /\ sheets' = handled.sheets
    /\ UNCHANGED <<classOf, styleDef, styleMap, componentMap, separatedStyles,
                   separated, uuids, manager, instanceId, className, faults,
                   deliveries, calls, obtained, refreshes, sepVars, mergeVars>>

\* lines 147, 151: the reference has no identifier yet
MustMintAlways(id) == TRUE
MustMint(id) == id = 0

\* line 164: no separated object is stored at the key
MustSeparateAlways(ref) == TRUE
MustSeparate(ref) == ref = 0

\* the class name of the rule declared last
lastClassName(styles, classNames) ==
    IF styles.keys # << >> /\ styles.keys[Len(styles.keys)] \in DOMAIN classNames
    THEN classNames[styles.keys[Len(styles.keys)]]
    ELSE "undefined"
\* line 191: this.getClassNames()[Object.keys(styles)[0]]
firstClassName(styles, classNames) ==
    IF styles.keys # << >> /\ styles.keys[1] \in DOMAIN classNames
    THEN classNames[styles.keys[1]]
    ELSE "undefined"

\* a dynamic stylesheet kept with the separated object and handed to every
\* instance that obtains the object
createDynamicStyleSheetOnce(shs, sep) ==
    LET made == {h \in DOMAIN shs :
                    shs[h].link /\ shs[h].rules = sep.dynamicStyles}
    IN  IF made # {}
        THEN [ret |-> CHOOSE h \in made : TRUE, sheets |-> shs]
        ELSE createStyleSheet(shs, sep.dynamicStyles, TRUE)
\* lines 182-187: the instance's dynamic stylesheet, linked to the DOM
createDynamicStyleSheet(shs, sep) ==
    createStyleSheet(shs, sep.dynamicStyles, TRUE)

ngAfterContentInit(i) ==
    LET k == classOf[i]
        s == StylesOf[k]
        styles == styleDef[s]
        mintS == MustMint(styleMap[k][s])
        styleId == IF mintS THEN uuids + 1 ELSE styleMap[k][s]
        u1 == IF mintS THEN uuids + 1 ELSE uuids
        mintC == MustMint(componentMap[k])
        componentId == IF mintC THEN u1 + 1 ELSE componentMap[k]
        u2 == IF mintC THEN u1 + 1 ELSE u1
        id == <<componentId, styleId>>
        stored == IF id \in DOMAIN separatedStyles[k]
                  THEN separatedStyles[k][id]
                  ELSE 0
        fresh == MustSeparate(stored)
        made == separateStyles(sheets, styles.rules)
        ref == IF fresh THEN Len(separated) + 1 ELSE stored
        heap == IF fresh
                THEN Append(separated, [val |-> made.ret, by |-> k])
                ELSE separated
        shs1 == IF fresh THEN made.sheets ELSE sheets
        separatedStylesInstance == heap[ref].val
        st1 == IF "staticStyleSheet" \in DOMAIN separatedStylesInstance
               THEN "staticStyleSheet" :> separatedStylesInstance.staticStyleSheet
               ELSE EmptyObject
        hasDyn == "dynamicStyles" \in DOMAIN separatedStylesInstance
        dyn == createDynamicStyleSheet(shs1, separatedStylesInstance)
        st2 == IF hasDyn
               THEN st1 @@ ("dynamicStyleSheet" :> dyn.ret)
               ELSE st1
        shs2 == IF hasDyn THEN dyn.sheets ELSE shs1
        merged == getClassNames(st2, shs2)
    IN  /\ Enter(i, "ngAfterContentInit")
        /\ styleMap' = [styleMap EXCEPT ![k][s] = styleId]
        /\ componentMap' = [componentMap EXCEPT ![k] = componentId]
        /\ uuids' = u2
        /\ instanceId' = [instanceId EXCEPT ![i] = id]
        /\ separated' = heap
        /\ separatedStyles' =
              [separatedStyles EXCEPT ![k] =
                  IF fresh
                  THEN (id :> ref) @@ separatedStyles[k]
                  ELSE separatedStyles[k]]
        /\ obtained' = [obtained EXCEPT ![i] = ref]
        /\ state' = [state EXCEPT ![i] = st2]
        /\ sheets' = merged.sheets
        /\ className' =
              [className EXCEPT ![i] = firstClassName(styles, merged.ret)]
        /\ UNCHANGED <<classOf, styleDef, manager, config, listening, faults,
                       deliveries, calls, requests, refreshes, sepVars,
                       mergeVars>>

\* this.state as a static member: the state of an instance of the class
\* that holds handles, when there is one
ViewStateShared(i) ==
    LET js == {j \in Instances :
                /\ classOf[j] = classOf[i]
                /\ state[j] # Undefined
                /\ DOMAIN state[j] # {}}
    IN  IF js # {} THEN state[CHOOSE j \in js : TRUE] ELSE state[i]
\* lines 199-207: this.state as ngAfterViewInit reads it
ViewState(i) == state[i]

\* the stylesheet evaluated first and injected afterwards
updateAttach(shs, h, data) == attach(update(shs, h, data), h)
\* line 207: this.state.dynamicStyleSheet.attach().update(this.designSystem)
attachUpdate(shs, h, data) == update(attach(shs, h), h, data)

ngAfterViewInit(i) ==
    /\ Enter(i, "ngAfterViewInit")
    /\ IF ViewState(i) = Undefined
       THEN /\ Throw(i, "ngAfterViewInit")
            /\ UNCHANGED <<manager, sheets, calls>>
       ELSE LET st == ViewState(i)
                m1 == IF hasStaticStyleSheet(st)
                      THEN managerManage(managerAdd(manager, st.staticStyleSheet),
                                         sheets, st.staticStyleSheet)
                      ELSE [manager |-> manager, sheets |-> sheets]
                shs2 == IF hasDynamicStyleSheet(st)
                        THEN attachUpdate(m1.sheets, st.dynamicStyleSheet,
                                          designSystem(config[i]))
                        ELSE m1.sheets
            IN  /\ manager' = m1.manager
                /\ sheets' = shs2
                /\ calls' = IF hasStaticStyleSheet(st)
                            THEN [calls EXCEPT ![i].manage = @ + 1]
                            ELSE calls
                /\ UNCHANGED faults
    /\ UNCHANGED <<classOf, styleDef, styleMap, componentMap, separatedStyles,
                   separated, uuids, state, config, instanceId, className,
                   listening, deliveries, obtained, requests, refreshes,
                   sepVars, mergeVars>>

\* the stylesheet removed from the engine first and detached afterwards
removeDetach(shs, h) == detach(removeStyleSheet(shs, h), h)
\* lines 217-218: detach the dynamic stylesheet, then remove it from jss
detachRemove(shs, h) == removeStyleSheet(detach(shs, h), h)

ngOnDestroy(i) ==
    /\ Enter(i, "ngOnDestroy")
    /\ IF state[i] = Undefined
       THEN /\ Throw(i, "ngOnDestroy")
            /\ UNCHANGED <<manager, sheets, calls>>
       ELSE LET st == state[i]
                m1 == IF hasStaticStyleSheet(st)
                      THEN managerUnmanage(manager, sheets, st.staticStyleSheet)
                      ELSE [manager |-> manager, sheets |-> sheets]
                shs2 == IF hasDynamicStyleSheet(st)
                        THEN detachRemove(m1.sheets, st.dynamicStyleSheet)
                        ELSE m1.sheets
            IN  /\ manager' = m1.manager
                /\ sheets' = shs2
                /\ calls' = IF hasStaticStyleSheet(st)
                            THEN [calls EXCEPT ![i].unmanage = @ + 1]
                            ELSE calls
                /\ UNCHANGED faults
    /\ UNCHANGED <<classOf, styleDef, styleMap, componentMap, separatedStyles,
                   separated, uuids, state, config, instanceId, className,
                   listening, deliveries, obtained, requests, refreshes,
                   sepVars, mergeVars>>

(***************************************************************************)
(* Events                                                                  *)
(***************************************************************************)
RECURSIVE Sum(_, _)
Sum(f, S) ==
    IF S = {} THEN 0
    ELSE LET x == CHOOSE y \in S : TRUE IN f[x] + Sum(f, S \ {x})

Handle(i, c) ==
    LET handled == getConfigListener(state[i], sheets, c)
    IN  /\ listening[i]
        /\ Sum(deliveries, Instances) < MaxDeliveries
        /\ deliveries' = [deliveries EXCEPT ![i] = @ + 1]
        /\ config' = [config EXCEPT ![i] = handled.config]
        /\ sheets' = handled.sheets
        /\ UNCHANGED <<classOf, styleDef, styleMap, componentMap,
                       separatedStyles, separated, uuids, manager, state,
                       instanceId, className, listening, hookLog, faults,
                       calls, obtained, superCalls, sepVars, mergeVars>>

\* a getConfig event dispatched by another party reaches the instance's
\* element
Deliver(i) ==
    /\ \E c \in Configs : Handle(i, c)
    /\ UNCHANGED <<requests, refreshes>>

\* an update event reaches the element: the listener of line 135 dispatches
\* the getConfig event again, which the listener of line 121 handles
Refresh(i) ==
    /\ \E c \in Configs : Handle(i, c)
    /\ refreshes' = [refreshes EXCEPT ![i] = @ + 1]
    /\ requests' = [requests EXCEPT ![i] = @ + 1]

Next ==
    \/ \E i \in Instances : ngOnInit(i)
    \/ \E i \in Instances : ngAfterContentInit(i)
    \/ \E i \in Instances : ngAfterViewInit(i)
    \/ \E i \in Instances : ngOnDestroy(i)
    \/ \E i \in Instances : Deliver(i)
    \/ \E i \in Instances : Refresh(i)

Spec == Init /\ [][Next]_vars

(***************************************************************************)
(* separateStyles applied to every rule tree of depth MaxDepth             *)
(***************************************************************************)
InitIdle ==
    /\ classOf = [i \in Instances |-> "A"]
    /\ styleDef = [s \in StyleRefs |-> StyleNone]
    /\ InitClasses
    /\ InitInstances

InitSep ==
    /\ InitIdle
    /\ pTree \in Trees(MaxDepth)
    /\ pSep = Undefined
    /\ IdleMerge

Separate ==
    /\ pSep = Undefined
    /\ pSep' = separateStyles(<< >>, pTree)
    /\ UNCHANGED <<lifeVars, pTree, mergeVars>>

NextSep == Separate

SpecSep == InitSep /\ [][NextSep]_vars

(***************************************************************************)
(* getClassNames applied to every pair of class maps                       *)
(***************************************************************************)
RuleNames == {"a", "b", "d"}
StaticClassNames == {"c1", "c2"}
DynamicClassNames == {"c3", "c4"}

ClassMaps(names) == UNION {[K -> names] : K \in SUBSET RuleNames}

SheetWith(classes, link) ==
    [rules |-> EmptyObject, classes |-> classes, link |-> link,
     attached |-> FALSE, registered |-> TRUE, data |-> "undefined",
     log |-> << >>]

\* sheet 1 is the static handle, sheet 2 the dynamic handle; gSheets keeps
\* the sheets as they were before the call, gOut.sheets as the call left them
InitMerge ==
    /\ InitIdle
    /\ IdleSep
    /\ gSheets \in {<<SheetWith(sc, FALSE), SheetWith(dc, TRUE)>> :
                        sc \in ClassMaps(StaticClassNames),
                        dc \in ClassMaps(DynamicClassNames)}
    /\ gState \in {EmptyObject,
                   "staticStyleSheet" :> 1,
                   "dynamicStyleSheet" :> 2,
                   ("staticStyleSheet" :> 1) @@ ("dynamicStyleSheet" :> 2)}
    /\ gOut = Undefined

Merge ==
    /\ gOut = Undefined
    /\ gOut' = getClassNames(gState, gSheets)
    /\ UNCHANGED <<lifeVars, sepVars, gState, gSheets>>

NextMerge == Merge

SpecMerge == InitMerge /\ [][NextMerge]_vars

(***************************************************************************)
(* Properties of getClassNames (SpecMerge)                                 *)
(***************************************************************************)
gStatic == IF hasStaticStyleSheet(gState) THEN gSheets[1].classes ELSE EmptyObject
gDynamic == IF hasDynamicStyleSheet(gState) THEN gSheets[2].classes ELSE EmptyObject

\* C4: for every rule name r the merged map holds static[r], one space and
\* dynamic[r] when both handles have a class for r, dynamic[r] alone when
\* only the dynamic handle has one, static[r] unchanged when only the static
\* handle has one, and no entry otherwise; with no handle the result is the
\* empty map; the static handle's own class map is what it was before.
C4_MergedClassNames ==
    gOut # Undefined =>
        /\ \A r \in RuleNames :
            /\ (r \in DOMAIN gStatic /\ r \in DOMAIN gDynamic) =>
                    /\ r \in DOMAIN gOut.ret
                    /\ Len(gOut.ret[r]) = Len(gStatic[r]) + 1 + Len(gDynamic[r])
                    /\ gOut.ret[r] = (gStatic[r] \o " ") \o gDynamic[r]
            /\ (r \notin DOMAIN gStatic /\ r \in DOMAIN gDynamic) =>
                    /\ r \in DOMAIN gOut.ret
                    /\ gOut.ret[r] = gDynamic[r]
            /\ (r \in DOMAIN gStatic /\ r \notin DOMAIN gDynamic) =>
                    /\ r \in DOMAIN gOut.ret
                    /\ gOut.ret[r] = gStatic[r]
            /\ (r \notin DOMAIN gStatic /\ r \notin DOMAIN gDynamic) =>
                    r \notin DOMAIN gOut.ret
        /\ DOMAIN gOut.ret \subseteq RuleNames
        /\ (gState = EmptyObject => gOut.ret = EmptyObject)
        /\ gOut.sheets[1].classes = gSheets[1].classes

\* the merge of {a: c1, b: c2} with {b: c3, d: c4} has been computed
C4_Witness ==
    /\ gOut # Undefined
    /\ hasStaticStyleSheet(gState) /\ hasDynamicStyleSheet(gState)
    /\ gSheets[2].classes = ("b" :> "c3") @@ ("d" :> "c4")
    /\ gOut.ret = ("a" :> "c1") @@ ("b" :> "c2 c3") @@ ("d" :> "c4")

(***************************************************************************)
(* Properties of separateStyles (SpecSep)                                  *)
(***************************************************************************)
\* a side of the result, the empty tree when the field is absent
Side(sep, f) == IF f \in DOMAIN sep THEN sep[f] ELSE EmptyObject

BothNested(s, d, k) ==
    /\ k \in DOMAIN s /\ k \in DOMAIN d
    /\ s[k].tag = "obj" /\ d[k].tag = "obj"

\* no rule is on both sides at the same tree position
RECURSIVE Disjoint(_, _)
Disjoint(s, d) ==
    \A k \in DOMAIN s \cap DOMAIN d :
        /\ BothNested(s, d, k)
        /\ Disjoint(s[k].kids, d[k].kids)

\* the union of the two sides at every nesting level
RECURSIVE Recombine(_, _)
Recombine(s, d) ==
    [k \in DOMAIN s \cup DOMAIN d |->
        IF BothNested(s, d, k)
        THEN Obj(Recombine(s[k].kids, d[k].kids))
        ELSE IF k \in DOMAIN s THEN s[k] ELSE d[k]]

\* the tree holds a literal (a resolver) at some depth
RECURSIVE HasLeaf(_, _)
HasLeaf(t, tag) ==
    \E k \in DOMAIN t :
        \/ t[k].tag = tag
        \/ t[k].tag = "obj" /\ HasLeaf(t[k].kids, tag)

\* the tree without its nested objects that hold no rule at any depth
RECURSIVE Pruned(_)
Pruned(t) ==
    LET keep == {k \in DOMAIN t :
                    t[k].tag = "obj" =>
                        (HasLeaf(t[k].kids, "lit") \/ HasLeaf(t[k].kids, "fn"))}
    IN  [k \in keep |->
            IF t[k].tag = "obj" THEN Obj(Pruned(t[k].kids)) ELSE t[k]]

\* no object of the tree, the root included, has zero keys
RECURSIVE NoEmptyObject(_)
NoEmptyObject(t) ==
    /\ DOMAIN t # {}
    /\ \A k \in DOMAIN t : t[k].tag = "obj" => NoEmptyObject(t[k].kids)

\* C5 as stated: the two sides share no rule and their union at every
\* nesting level is the original tree.
C5_UnionIsOriginal ==
    pSep # Undefined =>
        LET s == Side(pSep.ret, "staticStyles")
            d == Side(pSep.ret, "dynamicStyles")
        IN  Disjoint(s, d) /\ Recombine(s, d) = pTree

\* C5 amended: the two sides share no rule and their union at every nesting
\* level is the original tree without its nested objects that hold no rule;
\* it is the original tree itself when the tree has no such object.
C5_UnionIsPrunedOriginal ==
    pSep # Undefined =>
        LET s == Side(pSep.ret, "staticStyles")
            d == Side(pSep.ret, "dynamicStyles")
        IN  /\ Disjoint(s, d)
            /\ Recombine(s, d) = Pruned(pTree)
            /\ (Pruned(pTree) = pTree => Recombine(s, d) = pTree)

\* a tree with a literal and a resolver under one nested key, and an empty
\* nested object next to it, has been separated
C5_Witness ==
    /\ pSep # Undefined
    /\ pTree = ("a" :> Obj(("a" :> Lit("red")) @@ ("b" :> Fn("fn"))))
               @@ ("b" :> Obj(EmptyObject))
    /\ "staticStyles" \in DOMAIN pSep.ret
    /\ "dynamicStyles" \in DOMAIN pSep.ret

\* C6: without a resolver-valued rule the result has no dynamicStyles;
\* without a literal-valued rule it has neither staticStyles nor
\* staticStyleSheet; staticStyleSheet is present exactly when staticStyles
\* is; a side that is present has no object with zero keys.
C6_AbsentSides ==
    pSep # Undefined =>
        /\ ~HasLeaf(pTree, "fn") => "dynamicStyles" \notin DOMAIN pSep.ret
        /\ ~HasLeaf(pTree, "lit") =>
                /\ "staticStyles" \notin DOMAIN pSep.ret
                /\ "staticStyleSheet" \notin DOMAIN pSep.ret
        /\ "staticStyleSheet" \in DOMAIN pSep.ret
                <=> "staticStyles" \in DOMAIN pSep.ret
        /\ "staticStyleSheet" \in DOMAIN pSep.ret =>
                /\ pSep.ret.staticStyleSheet \in DOMAIN pSep.sheets
                /\ pSep.sheets[pSep.ret.staticStyleSheet].rules = pSep.ret.staticStyles
        /\ "staticStyles" \in DOMAIN pSep.ret => NoEmptyObject(pSep.ret.staticStyles)
        /\ "dynamicStyles" \in DOMAIN pSep.ret => NoEmptyObject(pSep.ret.dynamicStyles)
        /\ (~HasLeaf(pTree, "fn") /\ ~HasLeaf(pTree, "lit")) => pSep.ret = EmptyObject

\* a tree with literal rules only has been separated: a static side and a
\* static handle, no dynamic side
C6_Witness ==
    /\ pSep # Undefined
    /\ pTree = ("a" :> Lit("red")) @@ ("b" :> Obj("a" :> Lit("red")))
    /\ DOMAIN pSep.ret = {"staticStyles", "staticStyleSheet"}

(***************************************************************************)
(* Properties of the lifecycle (Spec)                                      *)
(***************************************************************************)
\* h1 was invoked on the instance, and before h2 if h2 was invoked at all
Before(i, h1, h2) ==
    \E n \in DOMAIN hookLog[i] :
        /\ hookLog[i][n] = h1
        /\ \A m \in 1..n : hookLog[i][m] # h2

\* the instance went through ngOnInit, ngAfterContentInit, ngAfterViewInit
Mounted(i) ==
    /\ Len(hookLog[i]) >= 3
    /\ SubSeq(hookLog[i], 1, 3) =
            <<"ngOnInit", "ngAfterContentInit", "ngAfterViewInit">>

Destroyed(i) == Invoked(i, "ngOnDestroy")

\* calls of separateStyles made by class k
SepCalls(k) == Cardinality({n \in DOMAIN separated : separated[n].by = k})

StaticSheets == {h \in DOMAIN sheets : ~sheets[h].link}
DynamicSheets == {h \in DOMAIN sheets : sheets[h].link}

\* C1: separateStyles runs at most once for a class and its style set; every
\* instance that ran ngAfterContentInit got the object that is stored at its
\* key, which is still stored there, and holds that object's static handle.
C1_SeparatedOnce ==
    /\ \A k \in Classes : SepCalls(k) <= 1
    /\ \A i \in Instances :
        obtained[i] # 0 =>
            /\ instanceId[i] \in DOMAIN separatedStyles[classOf[i]]
            /\ separatedStyles[classOf[i]][instanceId[i]] = obtained[i]
            /\ hasStaticStyleSheet(state[i]) =>
                    /\ "staticStyleSheet" \in DOMAIN separated[obtained[i]].val
                    /\ state[i].staticStyleSheet =
                            separated[obtained[i]].val.staticStyleSheet
    /\ \A i, j \in Instances :
        (classOf[i] = classOf[j] /\ obtained[i] # 0 /\ obtained[j] # 0)
            => obtained[i] = obtained[j]

\* two instances of one class ran ngAfterContentInit and hold a static handle
C1_Witness ==
    \E i, j \in Instances :
        /\ i # j /\ classOf[i] = classOf[j]
        /\ obtained[i] # 0 /\ obtained[j] # 0
        /\ hasStaticStyleSheet(state[i]) /\ hasStaticStyleSheet(state[j])

\* both instances are mounted and their classes wrap one style set that has
\* literal and resolver rules
BothMounted(i, j) ==
    /\ i # j
    /\ StylesOf[classOf[i]] = StylesOf[classOf[j]]
    /\ styleDef[StylesOf[classOf[i]]] = StyleBoth
    /\ Mounted(i) /\ Mounted(j)

DynamicHandlesAndRegistrations(i, j) ==
    /\ hasDynamicStyleSheet(state[i]) /\ hasDynamicStyleSheet(state[j])
    /\ state[i].dynamicStyleSheet # state[j].dynamicStyleSheet
    /\ Cardinality(DynamicSheets) = 2
    /\ calls[i].manage = 1 /\ calls[j].manage = 1

\* C2 as stated: two components wrapped with the same style-set object, both
\* mounted: one static compilation and one extraction in total, two dynamic
\* handles and one manage per instance.
C2_OneCompilationPerStyleSet ==
    \A i, j \in Instances :
        (BothMounted(i, j) /\ classOf[i] # classOf[j]) =>
            /\ Cardinality(StaticSheets) = 1
            /\ Len(separated) = 1
            /\ DynamicHandlesAndRegistrations(i, j)

\* C2 amended: two mounted instances whose classes wrap the same style-set
\* object: one static compilation and one extraction per wrapper class (one
\* in total when both are instances of one class, two when the style set was
\* wrapped twice), two dynamic handles and one manage per instance.
C2_OneCompilationPerClass ==
    \A i, j \in Instances :
        BothMounted(i, j) =>
            /\ Cardinality(StaticSheets) = Cardinality({classOf[i], classOf[j]})
            /\ Len(separated) = Cardinality({classOf[i], classOf[j]})
            /\ SepCalls(classOf[i]) = 1 /\ SepCalls(classOf[j]) = 1
            /\ DynamicHandlesAndRegistrations(i, j)

\* two instances of one class are mounted
C2_Witness ==
    \E i, j \in Instances : BothMounted(i, j) /\ classOf[i] = classOf[j]

\* the separated objects stored by class k under style identifier sid
EntriesFor(k, sid) ==
    {separatedStyles[k][key] :
        key \in {x \in DOMAIN separatedStyles[k] : x[2] = sid}}

C3_Independent ==
    \A k1, k2 \in Classes : \A s1, s2 \in StyleRefs :
        (/\ s1 # s2
         /\ styleMap[k1][s1] # 0
         /\ styleMap[k2][s2] # 0
         /\ styleDef[s1] = styleDef[s2]) =>
            /\ styleMap[k1][s1] # styleMap[k2][s2]
            /\ \A e1 \in EntriesFor(k1, styleMap[k1][s1]) :
               \A e2 \in EntriesFor(k2, styleMap[k2][s2]) :
                /\ e1 # e2
                /\ ("staticStyleSheet" \in DOMAIN separated[e1].val
                    /\ "staticStyleSheet" \in DOMAIN separated[e2].val)
                        => separated[e1].val.staticStyleSheet
                                # separated[e2].val.staticStyleSheet

\* C3: two distinct style-set references with deeply equal content have
\* different identifiers and different stored objects with different static
\* handles, and an identifier, once minted for a reference, stays.
C3_IdentityKeyed ==
    [][/\ C3_Independent'
       /\ \A k \in Classes : \A s \in StyleRefs :
            styleMap[k][s] # 0 => styleMap'[k][s] = styleMap[k][s]]_vars

\* an instance for s1 and an instance for s2 (equal content) ran
\* ngAfterContentInit and each holds a static handle
C3_Witness ==
    \E i, j \in Instances :
        /\ StylesOf[classOf[i]] # StylesOf[classOf[j]]
        /\ styleDef[StylesOf[classOf[i]]] = styleDef[StylesOf[classOf[j]]]
        /\ obtained[i] # 0 /\ obtained[j] # 0
        /\ hasStaticStyleSheet(state[i]) /\ hasStaticStyleSheet(state[j])

Attaches(log) == Cardinality({n \in DOMAIN log : log[n].op = "attach"})

\* the step is ngAfterViewInit of instance i
ViewInitStep(i) == hookLog'[i] = Append(hookLog[i], "ngAfterViewInit")

\* the handles in this.state of instance i
HandlesOf(i) ==
    IF state[i] = Undefined THEN {} ELSE Range(state[i])

\* C7: ngAfterViewInit on an instance whose ngAfterContentInit has not run
\* leaves the shared manager and every stylesheet as they were; a sheet is
\* attached, and manage is called, only in the ngAfterViewInit of an instance
\* that holds the handle from an earlier ngAfterContentInit.
C7_AttachAfterCreate ==
    [][/\ \A i \in Instances :
            (ViewInitStep(i) /\ ~Invoked(i, "ngAfterContentInit"))
                => /\ manager' = manager
                   /\ sheets' = sheets
                   /\ calls' = calls
       /\ \A h \in DOMAIN sheets :
            Attaches(sheets'[h].log) > Attaches(sheets[h].log) =>
                \E i \in Instances :
                    /\ ViewInitStep(i)
                    /\ Invoked(i, "ngAfterContentInit")
                    /\ h \in HandlesOf(i)
       /\ \A i \in Instances :
            calls'[i].manage > calls[i].manage =>
                /\ ViewInitStep(i)
                /\ Invoked(i, "ngAfterContentInit")]_vars

\* ngAfterViewInit ran without fault on an instance whose ngAfterContentInit
\* has not run, while another instance of its class holds a static handle
C7_Witness ==
    \E i, j \in Instances :
        /\ i # j /\ classOf[i] = classOf[j]
        /\ Invoked(i, "ngAfterViewInit")
        /\ ~Invoked(i, "ngAfterContentInit")
        /\ faults[i] = {}
        /\ hasStaticStyleSheet(state[j])

UpdatedBeforeAttach(log) ==
    \E n \in DOMAIN log :
        /\ log[n].op = "update"
        /\ \A m \in 1..n : log[m].op # "attach"

\* C8: no dynamic handle is updated before it has been attached.
C8_AttachBeforeUpdate ==
    \A h \in DynamicSheets : ~UpdatedBeforeAttach(sheets[h].log)

\* C9: the static handle of an instance that is mounted and not destroyed
\* is attached.
C9_StaticAttachedWhileInUse ==
    \A i \in Instances :
        (Mounted(i) /\ ~Destroyed(i) /\ hasStaticStyleSheet(state[i]))
            => sheets[state[i].staticStyleSheet].attached

\* no static and no dynamic handle was ever created for the instance
NoHandleEver(i) ==
    obtained[i] = 0 \/ separated[obtained[i]].val = EmptyObject

\* C10: ngOnDestroy on an instance that never had a handle raises no fault
\* and makes no call on the shared manager.
C10_DestroyWithoutHandles ==
    \A i \in Instances :
        (Destroyed(i) /\ NoHandleEver(i)) =>
            /\ "ngOnDestroy" \notin faults[i]
            /\ calls[i].unmanage = 0

\* the step is the getConfig listener of instance i handling an event
DeliveryStep(i) == deliveries'[i] = deliveries[i] + 1

\* the step is ngOnInit of instance i, which handles its own getConfig event
InitStep(i) == hookLog'[i] = Append(hookLog[i], "ngOnInit")

\* C11: a configuration delivery to an instance with a dynamic handle appends
\* exactly one update, evaluated against the delivered value, to that
\* handle's operations and touches no other stylesheet; a delivery to an
\* instance without a dynamic handle performs no stylesheet operation; no
\* delivery touches the shared manager or the classification caches.
C11_DeliveryUpdatesOnce ==
    [][\A i \in Instances :
        (DeliveryStep(i) \/ InitStep(i)) =>
            /\ manager' = manager
            /\ calls' = calls
            /\ separated' = separated
            /\ separatedStyles' = separatedStyles
            /\ styleMap' = styleMap
            /\ componentMap' = componentMap
            /\ IF DeliveryStep(i) /\ hasDynamicStyleSheet(state[i])
               THEN sheets' =
                        [sheets EXCEPT
                            ![state[i].dynamicStyleSheet].data = config'[i],
                            ![state[i].dynamicStyleSheet].log =
                                Append(@, Call("update", "-"))]
               ELSE sheets' = sheets]_vars

\* two deliveries reached an instance right after it created its dynamic
\* handle, which was updated once for each and holds the value of the last
C11_Witness ==
    \E i \in Instances :
        /\ deliveries[i] = 2
        /\ state[i] # Undefined
        /\ hasDynamicStyleSheet(state[i])
        /\ config[i] = "red"
        /\ sheets[state[i].dynamicStyleSheet].data = "red"
        /\ sheets[state[i].dynamicStyleSheet].log =
                <<Call("update", "-"), Call("update", "-")>>

Updates(log) == Cardinality({n \in DOMAIN log : log[n].op = "update"})

\* C12: the value against which an instance's dynamic handle was last
\* updated is the configuration delivered last to the instance, and the
\* empty object only when none was ever delivered.
C12_UpdateCarriesDelivered ==
    \A i \in Instances :
        (/\ state[i] # Undefined
         /\ hasDynamicStyleSheet(state[i])
         /\ Updates(sheets[state[i].dynamicStyleSheet].log) > 0) =>
            sheets[state[i].dynamicStyleSheet].data =
                IF config[i] = "undefined" THEN "{}" ELSE config[i]

\* one dynamic handle was updated with a delivered non-empty configuration,
\* and another with the empty object by an instance that never received one
C12_Witness ==
    \E i, j \in Instances :
        /\ state[i] # Undefined /\ hasDynamicStyleSheet(state[i])
        /\ state[j] # Undefined /\ hasDynamicStyleSheet(state[j])
        /\ config[i] = "red"
        /\ sheets[state[i].dynamicStyleSheet].data = "red"
        /\ config[j] = "undefined"
        /\ sheets[state[j].dynamicStyleSheet].data = "{}"

\* the step is the update listener of instance i handling a refresh
RefreshStep(i) == refreshes'[i] = refreshes[i] + 1

\* C13: a refresh handled by an instance makes it dispatch one getConfig
\* request, whose delivery its listener handles in the same step, updating
\* the dynamic handle when there is one; the request ngOnInit dispatches is
\* handled too, the listener being installed before it.
C13_RefreshRequestsAndDelivers ==
    [][\A i \in Instances :
        /\ RefreshStep(i) =>
            /\ listening[i]
            /\ requests'[i] = requests[i] + 1
            /\ DeliveryStep(i)
            /\ config'[i] \in Configs
            /\ hasDynamicStyleSheet(state[i]) =>
                LET h == state[i].dynamicStyleSheet
                IN  /\ Updates(sheets'[h].log) = Updates(sheets[h].log) + 1
                    /\ sheets'[h].data = config'[i]
        /\ InitStep(i) =>
            /\ requests'[i] = requests[i] + 1
            /\ config'[i] = "{}"
        /\ requests'[i] # requests[i] => (InitStep(i) \/ RefreshStep(i))]_vars

\* an instance that holds a dynamic handle handled a refresh whose delivery
\* carried a non-empty configuration
C13_Witness ==
    \E i \in Instances :
        /\ refreshes[i] > 0
        /\ deliveries[i] = refreshes[i]
        /\ requests[i] = refreshes[i] + 1
        /\ state[i] # Undefined
        /\ hasDynamicStyleSheet(state[i])
        /\ sheets[state[i].dynamicStyleSheet].data = "red"

\* the cached separated object the instance obtained in ngAfterContentInit
CachedEntry(i) == separated[obtained[i]].val

\* C14: an instance that ran ngAfterContentInit holds a dynamic handle iff
\* its cached entry has dynamic rules and a static handle iff the entry has
\* one, namely the entry's; its dynamic handle compiles the entry's dynamic
\* rules and is held by no other instance and is no static handle; instances
\* of one wrapper class hold the same static handle.
C14_HandlesPerInstanceAndPair ==
    \A i \in Instances :
        obtained[i] # 0 =>
            /\ hasDynamicStyleSheet(state[i])
                    <=> "dynamicStyles" \in DOMAIN CachedEntry(i)
            /\ hasStaticStyleSheet(state[i])
                    <=> "staticStyleSheet" \in DOMAIN CachedEntry(i)
            /\ hasStaticStyleSheet(state[i]) =>
                    state[i].staticStyleSheet = CachedEntry(i).staticStyleSheet
            /\ hasDynamicStyleSheet(state[i]) =>
                /\ state[i].dynamicStyleSheet \in DOMAIN sheets
                /\ sheets[state[i].dynamicStyleSheet].rules
                        = CachedEntry(i).dynamicStyles
                /\ state[i].dynamicStyleSheet \notin StaticSheets
                /\ \A j \in Instances \ {i} :
                        (state[j] # Undefined /\ hasDynamicStyleSheet(state[j]))
                            => state[j].dynamicStyleSheet
                                    # state[i].dynamicStyleSheet
            /\ \A j \in Instances \ {i} :
                    (/\ classOf[j] = classOf[i]
                     /\ obtained[j] # 0
                     /\ hasStaticStyleSheet(state[i]))
                        => /\ hasStaticStyleSheet(state[j])
                           /\ state[j].staticStyleSheet
                                = state[i].staticStyleSheet

\* two instances of one class hold the same static handle and two dynamic
\* handles
C14_Witness ==
    \E i, j \in Instances :
        /\ i # j /\ classOf[i] = classOf[j]
        /\ obtained[i] # 0 /\ obtained[j] # 0
        /\ hasStaticStyleSheet(state[i]) /\ hasStaticStyleSheet(state[j])
        /\ state[i].staticStyleSheet = state[j].staticStyleSheet
        /\ hasDynamicStyleSheet(state[i]) /\ hasDynamicStyleSheet(state[j])
        /\ state[i].dynamicStyleSheet # state[j].dynamicStyleSheet

\* C15: ngAfterViewInit of an instance that holds a dynamic handle attaches
\* the handle and then updates it, both in that step and nothing else on it,
\* against the configuration delivered last before the step, or the empty
\* object when none was delivered.
C15_ViewInitAttachesThenUpdates ==
    [][\A i \in Instances :
        (/\ ViewInitStep(i)
         /\ state[i] # Undefined
         /\ hasDynamicStyleSheet(state[i])) =>
            LET h == state[i].dynamicStyleSheet
            IN  /\ sheets'[h].log =
                        sheets[h].log
                            \o <<Call("attach", "-"), Call("update", "-")>>
                /\ sheets'[h].attached
                /\ sheets'[h].data =
                        IF config[i] = "undefined" THEN "{}" ELSE config[i]]_vars

\* ngAfterViewInit attached and updated the dynamic handle of an instance
\* whose only configuration was delivered before the handle was created
C15_Witness ==
    \E i \in Instances :
        /\ Invoked(i, "ngAfterViewInit")
        /\ state[i] # Undefined
        /\ hasDynamicStyleSheet(state[i])
        /\ deliveries[i] > 0
        /\ sheets[state[i].dynamicStyleSheet].log
                = <<Call("attach", "-"), Call("update", "-")>>
        /\ sheets[state[i].dynamicStyleSheet].data = "red"

\* the step is ngOnDestroy of instance i
DestroyStep(i) == hookLog'[i] = Append(hookLog[i], "ngOnDestroy")

\* C16: ngOnDestroy of an instance detaches its dynamic handle and then
\* removes it from the engine, and changes no other dynamic stylesheet; on
\* the static side it only calls unmanage: the manager's count of its static
\* handle drops by at most one, no static stylesheet is removed, and a static
\* stylesheet is detached only by the manager when its count reaches zero.
C16_DestroyDetachesThenRemoves ==
    [][\A i \in Instances :
        (DestroyStep(i) /\ state[i] # Undefined) =>
            /\ hasDynamicStyleSheet(state[i]) =>
                LET h == state[i].dynamicStyleSheet
                IN  /\ sheets'[h].log =
                            sheets[h].log
                                \o <<Call("detach", "-"), Call("remove", "-")>>
                    /\ ~sheets'[h].attached
                    /\ ~sheets'[h].registered
            /\ \A g \in DynamicSheets :
                    (hasDynamicStyleSheet(state[i]) => g # state[i].dynamicStyleSheet)
                        => sheets'[g] = sheets[g]
            /\ \A g \in StaticSheets :
                /\ sheets'[g].registered
                /\ sheets'[g] # sheets[g] =>
                    /\ hasStaticStyleSheet(state[i])
                    /\ g = state[i].staticStyleSheet
                    /\ manager[g] = 1 /\ manager'[g] = 0
                    /\ sheets'[g] =
                            [sheets[g] EXCEPT
                                !.attached = FALSE,
                                !.log = Append(@, Call("detach", "-"))]
            /\ DOMAIN manager' = DOMAIN manager
            /\ \A g \in DOMAIN manager :
                    manager'[g] # manager[g] =>
                        /\ hasStaticStyleSheet(state[i])
                        /\ g = state[i].staticStyleSheet
                        /\ manager'[g] = manager[g] - 1]_vars

\* a destroyed instance held a static and a dynamic handle; its dynamic
\* stylesheet was detached and removed while another instance's dynamic
\* stylesheet is still registered with the engine
C16_Witness ==
    \E i, j \in Instances :
        /\ i # j
        /\ Destroyed(i) /\ "ngOnDestroy" \notin faults[i]
        /\ hasStaticStyleSheet(state[i]) /\ hasDynamicStyleSheet(state[i])
        /\ LET log == sheets[state[i].dynamicStyleSheet].log
           IN  /\ Len(log) >= 2
               /\ log[Len(log) - 1] = Call("detach", "-")
               /\ log[Len(log)] = Call("remove", "-")
        /\ state[j] # Undefined /\ hasDynamicStyleSheet(state[j])
        /\ sheets[state[j].dynamicStyleSheet].registered

\* C17: once ngOnDestroy has run on an instance, nothing more is done on
\* its dynamic handle: the removal is the handle's last operation.
C17_DestroyedIsTerminal ==
    \A i \in Instances :
        (/\ Destroyed(i)
         /\ state[i] # Undefined
         /\ hasDynamicStyleSheet(state[i])) =>
            LET log == sheets[state[i].dynamicStyleSheet].log
            IN  log[Len(log)] = Call("remove", "-")

\* the step is ngAfterContentInit of instance i
ContentInitStep(i) == hookLog'[i] = Append(hookLog[i], "ngAfterContentInit")

\* the merged class name of the rule the style set of instance i declares
\* first, over the stylesheets the instance holds after the step
FirstRuleClass(i) ==
    LET keys == styleDef[StylesOf[classOf[i]]].keys
        names == getClassNames(state'[i], sheets').ret
    IN  IF keys # << >> /\ keys[1] \in DOMAIN names
        THEN names[keys[1]]
        ELSE "undefined"

\* C18: className changes only in ngAfterContentInit of the instance, which
\* sets it to the merged class name of the first declared rule; no delivery,
\* refresh, ngAfterViewInit or ngOnDestroy changes it.
C18_ClassNameAssignedOnce ==
    [][\A i \in Instances :
        /\ className'[i] # className[i] => ContentInitStep(i)
        /\ ContentInitStep(i) => className'[i] = FirstRuleClass(i)]_vars

\* an instance whose style set declares two rules got the merged static and
\* dynamic class name of the first, and kept it through a delivery,
\* ngAfterViewInit and ngOnDestroy
C18_Witness ==
    \E i \in Instances :
        /\ styleDef[StylesOf[classOf[i]]] = StyleBoth
        /\ Mounted(i) /\ Destroyed(i)
        /\ deliveries[i] > 0
        /\ className[i] =
                MergeClass(sheets[state[i].staticStyleSheet].classes["a"],
                           sheets[state[i].dynamicStyleSheet].classes["a"])

DefinedByBase(h) == h \in BaseHooks

\* C19: every hook invoked on an instance that the wrapped component defines
\* was forwarded to the wrapped component, in the order of invocation.
C19_BaseHooksForwarded ==
    \A i \in Instances :
        superCalls[i] = SelectSeq(hookLog[i], DefinedByBase)

\* C20: an instance calls manage at most once and has never called unmanage
\* more often than manage.
C20_RegistrationBalance ==
    \A i \in Instances :
        /\ calls[i].manage <= 1
        /\ calls[i].unmanage <= calls[i].manage

====
